---- MODULE Spec2Model ----
(***************************************************************************)
(* Model of the trace annotator of sol-dbg (src/debug/sol_debugger.ts):    *)
(* SolTxDebugger.debugTx subscribes to the VM's "step" event; for every    *)
(* step the handler runs processRawTraceStep (memory/storage aliasing,     *)
(* getCodeAndMdHash, adjustStackFrame, decodeSourceLoc, event extraction), *)
(* appends the StepState to the trace and invokes the VM's continuation.   *)
(*                                                                         *)
(* The VM (@ethereumjs/vm) is the environment: a stack of call contexts    *)
(* that emits one callback per instruction, waits for the continuation and *)
(* then executes the instruction.                                          *)
(*                                                                         *)
(* Scaling: a word and a byte are small naturals, an address is a word     *)
(* modulo AddrMod, a buffer is a sequence of bytes.  "undefined" is a      *)
(* record whose def field is FALSE.                                        *)
(***************************************************************************)
EXTENDS Integers, Sequences, FiniteSets, TLC

VARIABLES
    program,    \* the instructions of the bytecode the VM runs (an input)
    tx,         \* the transaction handed to debugTx (an input)
    ctxs,       \* VM: the stack of call contexts, outermost first
    storage,    \* VM state manager: account -> contents of its storage
    codes,      \* VM state manager: account -> deployed code
    vmpc,       \* VM: "run" | "wait" (in a step callback) | "done"
    callbacks,  \* history: the InterpreterStep of every step callback invoked,
                \* each with the state manager's storage at that time
    nNext,      \* number of times the continuation next() was invoked
    failed,     \* the step handler threw (its promise rejected)
    arrays,     \* heap of Frame[] objects; arrays[StackRef] is debugTx's `stack`
    trace,      \* debugTx's `trace`: StepState[]
    other       \* a second debugTx run on the same SolTxDebugger, with its own
                \* VM: a record of that run's state (its Frame[] objects live
                \* in the same heap)

vars == <<program, tx, ctxs, storage, codes, vmpc, callbacks, nNext,
          failed, arrays, trace, other>>

(***************************************************************************)
(* Bounds of the model.                                                    *)
(***************************************************************************)
MaxSteps == 4   \* step callbacks per run
MaxDepth == 2   \* deepest VM depth (0-based) a call or creation may enter
MaxLongSteps == 6   \* step callbacks per run of the bytecode ProgReturn

(***************************************************************************)
(* Addresses.  ZERO_ADDRESS is the address of every Creation frame.        *)
(***************************************************************************)
AddrMod == 8
ZERO_ADDRESS == "0x0"
ZERO_ADDRESS_STRING == "0x0"
AddrA == "A"    \* deployed contract with debug info
AddrB == "B"    \* deployed contract without debug info
AddrE == "E"    \* account without code
TxSender == "S"

\* the address of the contract created by the context at VM depth d
NewAddresses == <<"N0", "N1", "N2", "N3", "N4">>
NewAddress(d) == NewAddresses[d + 1]

Accounts == {AddrA, AddrB, AddrE, ZERO_ADDRESS}
                \cup {NewAddresses[i] : i \in 1 .. Len(NewAddresses)}

\* the rightmost 20 bytes of a word, as an address
wordToAddress(w) ==
    CASE w % AddrMod = 1 -> AddrA
      [] w % AddrMod = 2 -> AddrB
      [] w % AddrMod = 3 -> AddrE
      [] OTHER           -> ZERO_ADDRESS

(***************************************************************************)
(* Buffers.                                                                *)
(***************************************************************************)
Min(a, b) == IF a < b THEN a ELSE b

\* Buffer.slice(from, to): clamped to the buffer
Slice(buf, from, to) ==
    LET f == Min(from, Len(buf))
        t == Min(to, Len(buf))
    IN  IF t <= f THEN <<>> ELSE SubSeq(buf, f + 1, t)

\* a word of the operand stack at an offset from the top (top is last)
StackAt(evmStack, offsetFromTop) ==
    LET i == Len(evmStack) - offsetFromTop
    IN  IF i >= 1 /\ i <= Len(evmStack) THEN evmStack[i] ELSE 0

CodeA == <<10, 1>>
CodeB == <<11>>
RuntimeN == <<12>>
KnownCreationCode == <<1>>

(***************************************************************************)
(* Opcode table (./opcodes).                                               *)
(***************************************************************************)
increasesDepth(op) == op \in {"CALL", "CALLCODE", "DELEGATECALL", "STATICCALL",
                              "CREATE", "CREATE2"}

createsContract(op) == op \in {"CREATE", "CREATE2"}

changesMemory(op) == op \in {"MSTORE", "MSTORE8", "CALLDATACOPY", "CODECOPY",
                             "EXTCODECOPY", "RETURNDATACOPY", "CALL", "CALLCODE",
                             "DELEGATECALL", "STATICCALL"}

(***************************************************************************)
(* Artifact manager and debug info (inputs of the debugger).               *)
(***************************************************************************)
NoInfo == [def |-> FALSE, id |-> 0]
InfoA == [def |-> TRUE, id |-> 1]
InfoC == [def |-> TRUE, id |-> 2]

NoHash == [def |-> FALSE, creation |-> FALSE, of |-> <<>>]

\* metadata hash of deployed code: undefined when the code carries none
getCodeHash(code) ==
    IF Len(code) >= 2 THEN [def |-> TRUE, creation |-> FALSE, of |-> code]
    ELSE NoHash

getCreationCodeHash(code) == [def |-> TRUE, creation |-> TRUE, of |-> code]

getContractFromMDHash(hash) ==
    IF hash.def /\ ~hash.creation /\ hash.of = CodeA THEN InfoA ELSE NoInfo

getContractFromCreationBytecode(data) ==
    IF data = KnownCreationCode THEN InfoC ELSE NoInfo

NoSrc == [def |-> FALSE, start |-> 0, jump |-> ""]
NoAst == [def |-> FALSE, kind |-> "", formals |-> <<>>, typesOk |-> TRUE]

\* program counters that have an entry in the source maps
SrcMapPcs == 0 .. 12

JumpKind(pc) == CASE pc = 1 -> "i"
                  [] pc = 3 -> "o"
                  [] OTHER  -> "-"

\* artifact.srcMap: the AST node at a source range; the entry JUMPDEST of an
\* internal function maps to its FunctionDefinition (formals given by slots)
FunctionDefinition(formals) ==
    [def |-> TRUE, kind |-> "FunctionDefinition", formals |-> formals, typesOk |-> TRUE]

AstAt(start) == CASE start = 2 -> FunctionDefinition(<<1, 2>>)
                  [] start = 0 -> [def |-> TRUE, kind |-> "Expression",
                                   formals |-> <<>>, typesOk |-> TRUE]
                  [] OTHER     -> NoAst

\* getOffsetSrc(instrOffset, bytecodeInfo): throws outside the table
getOffsetSrc(instrOffset) ==
    IF instrOffset \in SrcMapPcs
    THEN [ok |-> TRUE,
          src |-> [def |-> TRUE, start |-> instrOffset, jump |-> JumpKind(instrOffset)]]
    ELSE [ok |-> FALSE, src |-> NoSrc]

(***************************************************************************)
(* Frames.  One record shape for the three kinds; a field a kind does not  *)
(* have holds its empty value.  nearestExtFrame holds the external frame   *)
(* object of an InternalCall frame (a one-element sequence).               *)
(***************************************************************************)
NoArgs == [def |-> FALSE, list |-> <<>>]

\* contract.vFunctions of a ContractInfo's AST: selector -> definition
vFunctions(info) ==
    IF info = InfoA THEN {[sel |-> 1, node |-> FunctionDefinition(<<1>>)],
                          [sel |-> 2, node |-> FunctionDefinition(<<>>)]}
    ELSE {}

\* contract.vConstructor
vConstructor(info) == IF info = InfoC THEN FunctionDefinition(<<1>>) ELSE NoAst

\* decodeMsgData(callee, data, CallData, abiVersion): one view per formal;
\* throws when the data is shorter than the encoded arguments
decodeMsgData(callee, data) ==
    IF Len(data) >= 1 + Len(callee.formals)
    THEN [ok |-> TRUE,
          list |-> [i \in 1 .. Len(callee.formals) |-> [kind |-> "calldata", at |-> i]]]
    ELSE [ok |-> FALSE, list |-> <<>>]

makeCreationFrame(sender, data, step) ==
    LET contractInfo == getContractFromCreationBytecode(data)
        callee == IF contractInfo.def THEN vConstructor(contractInfo) ELSE NoAst
    IN  [kind |-> "creation",
         sender |-> sender,
         msgData |-> data,
         code |-> data,
         info |-> contractInfo,
         callee |-> callee,
         address |-> ZERO_ADDRESS,
         receiver |-> "",
         startStep |-> step,
         arguments |-> NoArgs,
         offset |-> 0,
         nearestExtFrame |-> <<>>]

makeCallFrame(sender, receiver, data, receiverCode, codeHash, step) ==
    LET contractInfo == IF ~codeHash.def THEN NoInfo ELSE getContractFromMDHash(codeHash)
        selector == Slice(data, 0, 1)
        matchingFuns == {f \in vFunctions(contractInfo) : <<f.sel>> = selector}
        callee == IF contractInfo.def /\ Cardinality(matchingFuns) = 1
                  THEN (CHOOSE f \in matchingFuns : TRUE).node
                  ELSE NoAst
        decoded == decodeMsgData(callee, data)
        args == IF callee.def /\ decoded.ok
                THEN [def |-> TRUE, list |-> decoded.list]
                ELSE NoArgs
    IN  [kind |-> "call",
         sender |-> sender,
         msgData |-> data,
         code |-> receiverCode,
         info |-> contractInfo,
         callee |-> callee,
         address |-> receiver,
         receiver |-> receiver,
         startStep |-> step,
         arguments |-> args,
         offset |-> 0,
         nearestExtFrame |-> <<>>]

IsExternal(frame) == frame.kind \in {"creation", "call"}

\* lastExternalFrame(arg) for a frame
lastExternalFrameOf(frame) ==
    IF frame.kind = "internal_call" THEN frame.nearestExtFrame[1] ELSE frame

\* variant of lastExternalFrame used to show the property depends on it: the first
\* frame of the stack is read instead of the last
lastExternalFrameOfBase(stack) == lastExternalFrameOf(stack[1])

\* lastExternalFrame(arg) for a stack
lastExternalFrame(stack) == lastExternalFrameOf(stack[Len(stack)])

\* decodeSourceLoc(instrOffset, ctx): [ok (did not throw), src, ast]
decodeSourceLoc(instrOffset, ctx) ==
    IF ~ctx.info.def THEN [ok |-> TRUE, src |-> NoSrc, ast |-> NoAst]
    ELSE LET r == getOffsetSrc(instrOffset)
         IN  IF r.ok THEN [ok |-> TRUE, src |-> r.src, ast |-> AstAt(r.src.start)]
             ELSE [ok |-> FALSE, src |-> NoSrc, ast |-> NoAst]

\* the loop of decodeFunArgs, for formals i, i-1, ..., 1
RECURSIVE decodeFunArgsLoop(_, _, _, _, _)
decodeFunArgsLoop(formals, i, offsetFromTop, stackLen, res) ==
    IF i = 0 THEN [ok |-> TRUE, def |-> TRUE, list |-> res]
    ELSE LET off == offsetFromTop + formals[i]
         IN  IF ~(off <= stackLen)
             THEN [ok |-> FALSE, def |-> FALSE, list |-> <<>>]
             ELSE decodeFunArgsLoop(formals, i - 1, off, stackLen,
                                    <<[kind |-> "stack", at |-> off]>> \o res)

\* variant of decodeFunArgs used to show the property depends on it: the last formal is not decoded
decodeFunArgsDropLast(callee, evmStack) ==
    IF ~callee.typesOk THEN [ok |-> TRUE, def |-> FALSE, list |-> <<>>]
    ELSE decodeFunArgsLoop(callee.formals, Len(callee.formals) - 1, -1, Len(evmStack), <<>>)

\* decodeFunArgs(callee, stack): [ok (no assertion failed), def, list]
decodeFunArgs(callee, evmStack) ==
    IF ~callee.typesOk THEN [ok |-> TRUE, def |-> FALSE, list |-> <<>>]
    ELSE decodeFunArgsLoop(callee.formals, Len(callee.formals), -1, Len(evmStack), <<>>)

(***************************************************************************)
(* adjustStackFrame(stack, state, trace, code, codeHash): the frame stack  *)
(* after the step, or ok = FALSE when an assertion fails or a source-map   *)
(* lookup throws (the stack is then as it was: every throw precedes the    *)
(* push or pop).                                                           *)
(***************************************************************************)
Push(stack, frame) == Append(stack, frame)
Pop(stack) == SubSeq(stack, 1, Len(stack) - 1)
Top(stack) == stack[Len(stack)]

\* variant of popFrames used to show the property depends on it: every popped frame counts against the quota
popFramesAnyKind(stack, nFramesPopped) ==
    IF nFramesPopped > 0 /\ Len(stack) > 0
    THEN SubSeq(stack, 1, Len(stack) - Min(nFramesPopped, Len(stack)))
    ELSE stack

\* variant of popFrames used to show the property depends on it: the internal frames
\* under the last external frame popped are popped too
RECURSIVE popFramesGreedy(_, _)
popFramesGreedy(stack, nFramesPopped) ==
    IF Len(stack) > 1 /\ (nFramesPopped > 0 \/ Top(stack).kind = "internal_call")
    THEN popFramesGreedy(Pop(stack),
                         IF Top(stack).kind = "creation" \/ Top(stack).kind = "call"
                         THEN nFramesPopped - 1 ELSE nFramesPopped)
    ELSE stack

\* the loop of the depth-decrease case
RECURSIVE popFrames(_, _)
popFrames(stack, nFramesPopped) ==
    IF nFramesPopped > 0 /\ Len(stack) > 0
    THEN popFrames(Pop(stack),
                   IF Top(stack).kind = "creation" \/ Top(stack).kind = "call"
                   THEN nFramesPopped - 1 ELSE nFramesPopped)
    ELSE stack

\* variant of newExternalFrame used to show the property depends on it: the
\* argument offsets of CALL are used for every call
newExternalFrameValueOffsets(lastExtFrame, lastStep, traceLength, code, codeHash) ==
    IF createsContract(lastStep.op)
    THEN LET off == StackAt(lastStep.evmStack, 1)
             size == StackAt(lastStep.evmStack, 2)
             creationBytecode == Slice(lastStep.memory, off, off + size)
         IN  makeCreationFrame(lastExtFrame.address, creationBytecode, traceLength)
    ELSE LET argOff == StackAt(lastStep.evmStack, 3)
             argSize == StackAt(lastStep.evmStack, 4)
             receiver == wordToAddress(StackAt(lastStep.evmStack, 1))
             msgData == Slice(lastStep.memory, argOff, argOff + argSize)
         IN  makeCallFrame(lastExtFrame.address, receiver, msgData, code, codeHash,
                           traceLength)

\* Case 1, depth increased: the new external frame
newExternalFrame(lastExtFrame, lastStep, traceLength, code, codeHash) ==
    IF createsContract(lastStep.op)
    THEN LET off == StackAt(lastStep.evmStack, 1)
             size == StackAt(lastStep.evmStack, 2)
             creationBytecode == Slice(lastStep.memory, off, off + size)
         IN  makeCreationFrame(lastExtFrame.address, creationBytecode, traceLength)
    ELSE LET argStackOff == IF lastStep.op = "CALL" \/ lastStep.op = "CALLCODE"
                            THEN 3 ELSE 2
             argSizeStackOff == argStackOff + 1
             argOff == StackAt(lastStep.evmStack, argStackOff)
             argSize == StackAt(lastStep.evmStack, argSizeStackOff)
             receiver == wordToAddress(StackAt(lastStep.evmStack, 1))
             msgData == Slice(lastStep.memory, argOff, argOff + argSize)
         IN  makeCallFrame(lastExtFrame.address, receiver, msgData, code, codeHash,
                           traceLength)

\* variant of adjustDepthChange used to show the property depends on it: the op of
\* the previous step is not asserted to increase the depth
adjustDepthChangeNoAssert(stack, state, lastStep, traceLength, code, codeHash) ==
    IF state.depth > lastStep.depth
    THEN [ok |-> TRUE,
          stack |-> Push(stack, newExternalFrame(lastExternalFrame(stack), lastStep,
                                                 traceLength, code, codeHash))]
    ELSE [ok |-> TRUE, stack |-> popFrames(stack, lastStep.depth - state.depth)]

\* Case 1: change in external call depth
adjustDepthChange(stack, state, lastStep, traceLength, code, codeHash) ==
    IF state.depth > lastStep.depth
    THEN IF ~increasesDepth(lastStep.op)
         THEN [ok |-> FALSE, stack |-> stack]
         ELSE [ok |-> TRUE,
               stack |-> Push(stack, newExternalFrame(lastExternalFrame(stack), lastStep,
                                                      traceLength, code, codeHash))]
    ELSE [ok |-> TRUE, stack |-> popFrames(stack, lastStep.depth - state.depth)]

\* variant of isInternalCallEntry used to show the property depends on it: the jump kind of the previous step is not read
isInternalCallEntryAnyJump(state, lastStep) ==
    /\ state.op = "JUMPDEST"
    /\ lastStep.op = "JUMP"
    /\ lastStep.src.def

\* the condition of "Jumping into an internal function call"
isInternalCallEntry(state, lastStep) ==
    /\ state.op = "JUMPDEST"
    /\ lastStep.op = "JUMP"
    /\ lastStep.src.def
    /\ lastStep.src.jump = "i"

\* variant of isInternalReturn used to show the property depends on it: the jump kind is not read
isInternalReturnAnyJump(state, src) == state.op = "JUMP"

\* the condition of "Returning from an internal function call"
isInternalReturn(state, src) == state.op = "JUMP" /\ src.jump = "o"

\* variant of topIsInternalCall used to show the property depends on it: the assertion is gone
topIsAnyFrame(stack) == TRUE

\* the assertion of the internal return
topIsInternalCall(stack) == Top(stack).kind = "internal_call"

\* Case 2: no change in external depth
adjustSameDepth(stack, state, lastStep, traceLength) ==
    LET lastExtFrame == lastExternalFrame(stack)
        loc == decodeSourceLoc(state.pc, lastExternalFrame(stack))
    IN  IF ~loc.ok THEN [ok |-> FALSE, stack |-> stack]
        ELSE IF ~loc.src.def THEN [ok |-> TRUE, stack |-> stack]
        ELSE IF isInternalCallEntry(state, lastStep)
        THEN LET decode == loc.ast.def /\ loc.ast.kind \in {"FunctionDefinition",
                                                           "StateVariableDeclaration"}
                 args == IF decode THEN decodeFunArgs(loc.ast, state.evmStack)
                         ELSE [ok |-> TRUE, def |-> FALSE, list |-> <<>>]
                 newFrame == [kind |-> "internal_call",
                              nearestExtFrame |-> <<lastExtFrame>>,
                              callee |-> loc.ast,
                              offset |-> state.pc,
                              startStep |-> traceLength,
                              arguments |-> [def |-> args.def, list |-> args.list],
                              sender |-> "", receiver |-> "", address |-> "",
                              msgData |-> <<>>, code |-> <<>>, info |-> NoInfo]
             IN  IF ~args.ok THEN [ok |-> FALSE, stack |-> stack]
                 ELSE [ok |-> TRUE, stack |-> Push(stack, newFrame)]
        ELSE IF isInternalReturn(state, loc.src)
        THEN IF ~topIsInternalCall(stack)
             THEN [ok |-> FALSE, stack |-> stack]
             ELSE [ok |-> TRUE, stack |-> Pop(stack)]
        ELSE [ok |-> TRUE, stack |-> stack]

adjustStackFrame(stack, state, tr, code, codeHash) ==
    IF Len(stack) = 0 THEN [ok |-> FALSE, stack |-> stack]
    ELSE IF Len(tr) = 0 THEN [ok |-> TRUE, stack |-> stack]
    ELSE LET lastStep == tr[Len(tr)]
         IN  IF lastStep.depth # state.depth
             THEN adjustDepthChange(stack, state, lastStep, Len(tr), code, codeHash)
             ELSE adjustSameDepth(stack, state, lastStep, Len(tr))

(***************************************************************************)
(* getCodeAndMdHash(vm, step, trace)                                       *)
(***************************************************************************)
getCodeAndMdHash(contractCode, step, tr) ==
    IF Len(tr) > 0 /\ createsContract(tr[Len(tr)].op)
    THEN LET lastStep == tr[Len(tr)]
             off == StackAt(lastStep.evmStack, 1)
             size == StackAt(lastStep.evmStack, 2)
             code == Slice(lastStep.memory, off, off + size)
         IN  [code |-> code, codeMdHash |-> getCreationCodeHash(code)]
    ELSE IF Len(tr) = 0 \/ tr[Len(tr)].codeAddress # step.codeAddress
    THEN LET code == contractCode[step.codeAddress]
         IN  [code |-> code, codeMdHash |-> getCodeHash(code)]
    ELSE [code |-> tr[Len(tr)].code, codeMdHash |-> tr[Len(tr)].codeMdHash]

(***************************************************************************)
(* processRawTraceStep(vm, step, trace, stack)                             *)
(***************************************************************************)
NoEvent == [def |-> FALSE, payload |-> <<>>, topics |-> <<>>]

Reverse(seq) == [i \in 1 .. Len(seq) |-> seq[Len(seq) + 1 - i]]

isLog(name) == name \in {"LOG0", "LOG1", "LOG2", "LOG3", "LOG4"}

\* step.opcode.name[3] - "0"
nTopicsOf(name) == CASE name = "LOG0" -> 0
                     [] name = "LOG1" -> 1
                     [] name = "LOG2" -> 2
                     [] name = "LOG3" -> 3
                     [] name = "LOG4" -> 4
                     [] OTHER         -> 0

\* a relative index of Array.slice: a negative index counts from the end
SliceIndex(len, i) ==
    IF i < 0 THEN (IF len + i < 0 THEN 0 ELSE len + i) ELSE Min(i, len)

\* Array.slice(from, to) on the operand stack, 0-based
ArraySlice(arr, from, to) ==
    LET f == SliceIndex(Len(arr), from)
        t == SliceIndex(Len(arr), to)
    IN  IF t <= f THEN <<>> ELSE SubSeq(arr, f + 1, t)

emittedEventOf(name, evmStack, memory) ==
    IF isLog(name)
    THEN LET off == StackAt(evmStack, 0)
             size == StackAt(evmStack, 1)
             nTopics == nTopicsOf(name)
         IN  [def |-> TRUE,
              payload |-> Slice(memory, off, off + size),
              topics |-> Reverse(ArraySlice(evmStack, Len(evmStack) - 2 - nTopics,
                                            Len(evmStack) - 2))]
    ELSE NoEvent

\* getStorage(manager, addr): the account's storage as the manager holds it
getStorage(manager, addr) == manager[addr]

\* variant of stepMemory used to show the property depends on it: the VM's buffer is copied at every step
stepMemoryAlwaysCopied(step, tr) == step.memory

\* the memory recorded for the step
stepMemory(step, tr) ==
    IF Len(tr) = 0 \/ changesMemory(tr[Len(tr)].op)
    THEN step.memory
    ELSE tr[Len(tr)].memory

\* the storage recorded for the step
stepStorage(step, tr, manager) ==
    IF Len(tr) = 0 \/ tr[Len(tr)].op = "SSTORE"
    THEN getStorage(manager, step.address)
    ELSE tr[Len(tr)].storage

\* translation of the basic VM state
vmStateOf(step, tr, manager) ==
    [evmStack |-> step.stack,
     memory |-> stepMemory(step, tr),
     storage |-> stepStorage(step, tr, manager),
     op |-> step.name,
     pc |-> step.pc,
     depth |-> step.depth + 1,
     address |-> step.address,
     codeAddress |-> step.codeAddress]

\* [ok, stack (the live stack after adjustStackFrame), state (the StepState,
\* its stack field still to be set to the clone)]
processRawTraceStep(step, tr, stack, manager, contractCode) ==
    LET vmState == vmStateOf(step, tr, manager)
        c == getCodeAndMdHash(contractCode, vmState, tr)
        adj == adjustStackFrame(stack, vmState, tr, c.code, c.codeMdHash)
        curExtFrame == lastExternalFrame(adj.stack)
        loc == IF Len(adj.stack) > 0 THEN decodeSourceLoc(step.pc, curExtFrame)
               ELSE [ok |-> FALSE, src |-> NoSrc, ast |-> NoAst]
    IN  [ok |-> adj.ok /\ Len(adj.stack) > 0,
         stack |-> adj.stack,
         state |-> [evmStack |-> vmState.evmStack,
                    memory |-> vmState.memory,
                    storage |-> vmState.storage,
                    op |-> vmState.op,
                    pc |-> vmState.pc,
                    depth |-> vmState.depth,
                    address |-> vmState.address,
                    codeAddress |-> vmState.codeAddress,
                    code |-> c.code,
                    codeMdHash |-> c.codeMdHash,
                    stack |-> 0,
                    src |-> IF loc.ok THEN loc.src ELSE NoSrc,
                    astNode |-> IF loc.ok THEN loc.ast ELSE NoAst,
                    emittedEvent |-> emittedEventOf(step.name, vmState.evmStack,
                                                    vmState.memory),
                    contractInfo |-> IF Len(adj.stack) > 0 THEN curExtFrame.info
                                    ELSE NoInfo]]

(***************************************************************************)
(* The step handler of debugTx and the clone of the frame stack.           *)
(***************************************************************************)
StackRef == 1

\* variant of cloneStack used to show the property depends on it: the step refers to the live array itself
cloneStackAliased(arrs, live) ==
    [arrays |-> [arrs EXCEPT ![StackRef] = live], ref |-> StackRef]

\* `stack: [...stack]`: a new array holding the frames of the live stack,
\* which is the array at `ref`
cloneStackAt(arrs, ref, live) ==
    [arrays |-> Append([arrs EXCEPT ![ref] = live], live),
     ref |-> Len(arrs) + 1]

cloneStack(arrs, live) == cloneStackAt(arrs, StackRef, live)

\* variant of pushStep used to show the property depends on it: trace.unshift(curStep)
unshiftStep(tr, curStep) == <<curStep>> \o tr

\* trace.push(curStep)
pushStep(tr, curStep) == Append(tr, curStep)

(***************************************************************************)
(* The VM: inputs and instruction semantics.                               *)
(***************************************************************************)
Instr(op, pc, stack) == [op |-> op, pc |-> pc, stack |-> stack]

\* operand stacks, top last
CallStack(addrWord) == <<0, 0, 1, 0, 2, addrWord, 3>>
DelegateCallStack(addrWord) == <<0, 0, 1, 0, addrWord, 3>>
CreateStack == <<1, 0, 0>>

\* internal calls and returns, an external call into the contract with
\* debug info
ProgInternal ==
    {Instr("ADD", 0, <<1, 1>>),
     Instr("JUMP", 1, <<2>>),
     Instr("JUMPDEST", 2, <<7, 8, 9>>),
     Instr("JUMPDEST", 2, <<7>>),
     Instr("JUMPDEST", 2, <<7, 8>>),
     Instr("JUMP", 3, <<0>>),
     Instr("CALL", 5, CallStack(1)),
     Instr("STOP", 8, <<>>)}

\* memory and storage writes, calls, a creation, a revert, and an
\* instruction whose program counter has no source-map entry
ProgData ==
    {Instr("MSTORE", 10, <<1, 0>>),
     Instr("SSTORE", 11, <<1, 0>>),
     Instr("CALL", 5, CallStack(10)),
     Instr("DELEGATECALL", 6, DelegateCallStack(1)),
     Instr("CREATE", 7, CreateStack),
     Instr("REVERT", 9, <<0, 0>>),
     Instr("STOP", 8, <<>>),
     Instr("ADD", 13, <<1, 1>>)}

\* events: LOG steps with and without the operand-stack words they consume
ProgLog ==
    {Instr("MSTORE", 10, <<1, 0>>),
     Instr("LOG0", 4, <<1, 0>>),
     Instr("LOG2", 4, <<5, 6, 1, 0>>),
     Instr("LOG2", 4, <<6, 1, 0>>),
     Instr("STOP", 8, <<>>)}

\* internal calls around and inside an external call that returns
ProgReturn ==
    {Instr("JUMP", 1, <<2>>),
     Instr("JUMPDEST", 2, <<7, 8, 9>>),
     Instr("CALL", 5, CallStack(1))}

Programs == {ProgInternal, ProgData, ProgLog, ProgReturn}

NoTo == [def |-> FALSE, addr |-> ""]
Txs == {[to |-> [def |-> TRUE, addr |-> AddrA], data |-> <<1, 0>>],
        [to |-> [def |-> TRUE, addr |-> AddrB], data |-> <<>>],
        [to |-> NoTo, data |-> KnownCreationCode],
        [to |-> [def |-> TRUE, addr |-> ZERO_ADDRESS], data |-> <<>>]}

Ctx(address, codeAddress, isCreate, saved) ==
    [address |-> address, codeAddress |-> codeAddress, memory |-> <<>>,
     isCreate |-> isCreate, saved |-> saved]

NoStep == [name |-> "", pc |-> 0, depth |-> 0, address |-> "", codeAddress |-> "",
           stack |-> <<>>, memory |-> <<>>]

\* the InterpreterStep of the latest callback
cur == IF callbacks = <<>> THEN NoStep ELSE callbacks[Len(callbacks)].step

\* MSTORE of one (scaled) word: memory grows to hold it
MStore(memory, off, val) ==
    [i \in 1 .. (IF Len(memory) > off THEN Len(memory) ELSE off + 1) |->
        IF i = off + 1 THEN val ELSE IF i <= Len(memory) THEN memory[i] ELSE 0]

CanEnter(cs) == Len(cs) <= MaxDepth

\* the context has instructions to run: initcode, or deployed code
HasCode(c, cd) == c.isCreate \/ cd[c.codeAddress] # <<>>

\* the context stack after a call context ends normally
EndContext(cs) == Pop(cs)

\* the deployed code after the context ends normally
CodesAfterEnd(cs, cd) ==
    IF Top(cs).isCreate THEN [cd EXCEPT ![Top(cs).address] = RuntimeN] ELSE cd

\* the VM executes the instruction of step `st`: [ctxs, storage, codes]
ExecOp(st, cs, sto, cd) ==
    LET top == Top(cs)
        target == wordToAddress(StackAt(st.stack, 1))
        initcode == Slice(top.memory, StackAt(st.stack, 1),
                          StackAt(st.stack, 1) + StackAt(st.stack, 2))
        same == [ctxs |-> cs, storage |-> sto, codes |-> cd]
    IN  CASE st.name \in {"CALL", "STATICCALL"} ->
               IF cd[target] # <<>> /\ CanEnter(cs)
               THEN [same EXCEPT !.ctxs = Push(cs, Ctx(target, target, FALSE, sto))]
               ELSE same
          [] st.name \in {"DELEGATECALL", "CALLCODE"} ->
               IF cd[target] # <<>> /\ CanEnter(cs)
               THEN [same EXCEPT !.ctxs = Push(cs, Ctx(top.address, target, FALSE, sto))]
               ELSE same
          [] st.name \in {"CREATE", "CREATE2"} ->
               IF initcode # <<>> /\ cd[NewAddress(Len(cs))] = <<>> /\ CanEnter(cs)
               THEN [same EXCEPT !.ctxs = Push(cs, Ctx(NewAddress(Len(cs)),
                                                       NewAddress(Len(cs)), TRUE, sto))]
               ELSE same
          [] st.name \in {"STOP", "RETURN"} ->
               [ctxs |-> EndContext(cs), storage |-> sto, codes |-> CodesAfterEnd(cs, cd)]
          [] st.name = "REVERT" ->
               [ctxs |-> EndContext(cs), storage |-> top.saved, codes |-> cd]
          [] st.name = "MSTORE" ->
               [same EXCEPT !.ctxs[Len(cs)].memory =
                                MStore(top.memory, StackAt(st.stack, 0), StackAt(st.stack, 1))]
          [] st.name = "SSTORE" ->
               [same EXCEPT !.storage[top.address] = (sto[top.address] + 1) % 2]
          [] OTHER -> same

(***************************************************************************)
(* Initial state: debugTx up to `const trace = []`.                        *)
(***************************************************************************)
InitCodes == [a \in Accounts |->
                 CASE a = AddrA -> CodeA
                   [] a = AddrB -> CodeB
                   [] OTHER     -> <<>>]

InitStorage == [a \in Accounts |-> 0]

\* the initial frame built by debugTx
initialFrame(t, contractCode) ==
    LET sender == TxSender
        receiver == IF ~t.to.def THEN ZERO_ADDRESS_STRING ELSE t.to.addr
        isCreation == receiver = ZERO_ADDRESS_STRING
    IN  IF isCreation THEN makeCreationFrame(sender, t.data, 0)
        ELSE LET code == contractCode[t.to.addr]
             IN  makeCallFrame(sender, t.to.addr, t.data, code, getCodeHash(code), 0)

\* the VM's outermost context for the transaction
initialCtx(t, sto) ==
    IF t.to.def THEN Ctx(t.to.addr, t.to.addr, FALSE, sto)
    ELSE Ctx(NewAddress(0), NewAddress(0), TRUE, sto)

\* no second run
NoRun == [program |-> {}, tx |-> [to |-> NoTo, data |-> <<>>], ctxs |-> <<>>,
          storage |-> InitStorage, codes |-> InitCodes, vmpc |-> "done",
          callbacks |-> <<>>, nNext |-> 0, failed |-> FALSE,
          pending |-> <<>>, trace |-> <<>>]

Init ==
    /\ program \in Programs
    /\ tx \in Txs
    /\ ctxs = <<initialCtx(tx, InitStorage)>>
    /\ storage = InitStorage
    /\ codes = InitCodes
    /\ vmpc = "run"
    /\ callbacks = <<>>
    /\ nNext = 0
    /\ failed = FALSE
    /\ arrays = << <<initialFrame(tx, InitCodes)>> >>
    /\ trace = <<>>
    /\ other = NoRun

(***************************************************************************)
(* Actions.                                                                *)
(***************************************************************************)
\* the context stack and deployed code after the innermost n contexts end
\* normally (STOP or RETURN, or the program counter running past the code)
RECURSIVE EndContexts(_, _, _)
EndContexts(cs, cd, n) ==
    IF n = 0 THEN [ctxs |-> cs, codes |-> cd]
    ELSE EndContexts(EndContext(cs), CodesAfterEnd(cs, cd), n - 1)

\* the step event of instruction `instr` in the innermost context of cs, with
\* the state manager's storage and code at that time
CallbackOf(instr, cs, sto, cd) ==
    [step |-> [name |-> instr.op, pc |-> instr.pc,
               depth |-> Len(cs) - 1,
               address |-> Top(cs).address,
               codeAddress |-> Top(cs).codeAddress,
               stack |-> instr.stack,
               memory |-> Top(cs).memory],
     manager |-> sto,
     codes |-> cd]

\* the number of step callbacks the model follows a run for
StepBound == IF program = ProgReturn THEN MaxLongSteps ELSE MaxSteps

\* the VM runs from the continuation of the previous step to the next step
\* event: it executes the previous step's instruction, nEnds contexts run
\* past the end of their code, and the callback is invoked with `instr`
VMStep(instr, nEnds) ==
    /\ vmpc = "run"
    /\ Len(callbacks) < StepBound
    /\ LET x == ExecOp(cur, ctxs, storage, codes)
           e == EndContexts(x.ctxs, x.codes, nEnds)
       IN  /\ nEnds < Len(x.ctxs)
           /\ HasCode(Top(e.ctxs), x.codes)
           /\ ctxs' = e.ctxs
           /\ codes' = e.codes
           /\ storage' = x.storage
           /\ callbacks' = Append(callbacks, CallbackOf(instr, e.ctxs, x.storage, e.codes))
    /\ vmpc' = "wait"
    /\ UNCHANGED <<program, tx, nNext, failed, arrays, trace, other>>

\* the VM executes the previous step's instruction and every remaining
\* context ends: runTx resolves and debugTx returns [trace, txRes]
VMFinish ==
    /\ vmpc = "run"
    /\ LET x == ExecOp(cur, ctxs, storage, codes)
           e == EndContexts(x.ctxs, x.codes, Len(x.ctxs))
       IN  /\ ctxs' = e.ctxs
           /\ codes' = e.codes
           /\ storage' = x.storage
    /\ vmpc' = "done"
    /\ UNCHANGED <<program, tx, callbacks, nNext, failed, arrays, trace, other>>

\* the "step" handler: processRawTraceStep, trace.push, next(); a throw
\* rejects the handler's promise and the continuation is never invoked
StepHandler ==
    /\ vmpc = "wait"
    /\ ~failed
    /\ LET r == processRawTraceStep(cur, trace, arrays[StackRef], storage, codes)
           c == cloneStack(arrays, r.stack)
       IN  IF r.ok
           THEN /\ arrays' = c.arrays
                /\ trace' = pushStep(trace, [r.state EXCEPT !.stack = c.ref])
                /\ nNext' = nNext + 1
                /\ vmpc' = "run"
                /\ UNCHANGED failed
           ELSE /\ failed' = TRUE
                /\ arrays' = [arrays EXCEPT ![StackRef] = r.stack]
                /\ UNCHANGED <<trace, nNext, vmpc>>
    /\ UNCHANGED <<program, tx, ctxs, storage, codes, callbacks, other>>

Next ==
    \/ \E instr \in program, nEnds \in 0 .. MaxDepth : VMStep(instr, nEnds)
    \/ VMFinish
    \/ StepHandler

Spec == Init /\ [][Next]_vars

(***************************************************************************)
(* Reading the trace.                                                      *)
(***************************************************************************)
\* the frame-stack snapshot of step k (1-based; the code's index is k - 1)
Snapshot(k) == arrays[trace[k].stack]

Steps == 1 .. Len(trace)
LaterSteps == 2 .. Len(trace)

RECURSIVE nExternal(_)
nExternal(stack) ==
    IF stack = <<>> THEN 0
    ELSE nExternal(Pop(stack)) + (IF IsExternal(Top(stack)) THEN 1 ELSE 0)

\* frame i of step k - 1's snapshot is no longer in step k's snapshot
PoppedAt(k, i) ==
    /\ i \in 1 .. Len(Snapshot(k - 1))
    /\ \/ Len(Snapshot(k)) < i
       \/ Snapshot(k)[i] # Snapshot(k - 1)[i]

IsInternalAt(k, i) == Snapshot(k)[i].kind = "internal_call"

IsReturnJump(k) ==
    trace[k].op = "JUMP" /\ trace[k].src.def /\ trace[k].src.jump = "o"

(***************************************************************************)
(* C1: for every step of the trace, the number of Call and Creation frames *)
(* in its snapshot equals step.depth, and step.depth is the depth the VM   *)
(* reported in that step's callback plus 1 (so it is the number of call    *)
(* contexts the VM had open).                                              *)
(***************************************************************************)
C1_ExternalFramesEqualDepth ==
    \A k \in Steps :
        /\ nExternal(Snapshot(k)) = trace[k].depth
        /\ trace[k].depth = callbacks[k].step.depth + 1

\* a step after an external return that unwound an internal frame
C1_Witness ==
    \E k \in LaterSteps :
        /\ trace[k].depth < trace[k - 1].depth
        /\ Top(Snapshot(k - 1)).kind = "internal_call"

(***************************************************************************)
(* C2: every snapshot is non-empty with a Call or Creation frame at its    *)
(* base, and so is the live frame stack at all times.                      *)
(***************************************************************************)
C2_BaseFrameExternal ==
    /\ \A k \in Steps : Len(Snapshot(k)) >= 1 /\ IsExternal(Snapshot(k)[1])
    /\ Len(arrays[StackRef]) >= 1
    /\ IsExternal(arrays[StackRef][1])

\* a depth decrease back to the outermost context has been reconciled
C2_Witness ==
    \E k \in LaterSteps :
        /\ trace[k].depth < trace[k - 1].depth
        /\ trace[k].depth = 1
        /\ Len(Snapshot(k)) = 1

(***************************************************************************)
(* C3: the JUMP (jump kind out) that returns from an internal function     *)
(* still has that function's InternalCall frame on top of its snapshot,    *)
(* as every other instruction of the function's body has.                  *)
(***************************************************************************)
C3_ReturnJumpInCalleeFrame ==
    \A k \in LaterSteps :
        ( /\ IsReturnJump(k)
          /\ trace[k].depth = trace[k - 1].depth
          /\ Top(Snapshot(k - 1)).kind = "internal_call" )
        => Top(Snapshot(k)) = Top(Snapshot(k - 1))

(***************************************************************************)
(* C4: for every step, the recorded memory equals the memory of the        *)
(* executing call context as delivered in that step's callback.            *)
(***************************************************************************)
C4_MemoryIsCallbackMemory ==
    \A k \in Steps : trace[k].memory = callbacks[k].step.memory

(***************************************************************************)
(* C5: for every step, the recorded storage equals the storage of          *)
(* step.address as the state manager holds it at that step's callback.     *)
(***************************************************************************)
C5_StorageIsManagerStorage ==
    \A k \in Steps : trace[k].storage = callbacks[k].manager[trace[k].address]

(***************************************************************************)
(* C6: for consecutive steps k - 1, k: if step k - 1's op is not           *)
(* memory-changing, step k's memory is step k - 1's; if it is not SSTORE,  *)
(* step k's storage is step k - 1's.  The memory is the VM's buffer, and   *)
(* the storage the state manager's, on the first step and after a          *)
(* memory-changing op / an SSTORE.                                         *)
(***************************************************************************)
C6_AliasesPreviousStep ==
    /\ \A k \in LaterSteps :
          /\ ~changesMemory(trace[k - 1].op) => trace[k].memory = trace[k - 1].memory
          /\ changesMemory(trace[k - 1].op) =>
                trace[k].memory = callbacks[k].step.memory
          /\ trace[k - 1].op # "SSTORE" => trace[k].storage = trace[k - 1].storage
          /\ trace[k - 1].op = "SSTORE" =>
                trace[k].storage = callbacks[k].manager[trace[k].address]
    /\ Len(trace) >= 1 =>
          /\ trace[1].memory = callbacks[1].step.memory
          /\ trace[1].storage = callbacks[1].manager[trace[1].address]

\* the previous buffers are shared although the VM's memory and the
\* account's storage are different by now
C6_Witness ==
    \E k \in LaterSteps :
        /\ ~changesMemory(trace[k - 1].op)
        /\ trace[k - 1].op # "SSTORE"
        /\ callbacks[k].step.memory # trace[k - 1].memory
        /\ callbacks[k].manager[trace[k].address] # trace[k - 1].storage

(***************************************************************************)
(* C7: the trace holds one entry per step callback whose continuation has  *)
(* been invoked, entry i being that of callback i; at most one callback is *)
(* in progress, the VM issuing callback k + 1 only after the continuation  *)
(* of callback k; and entries are only ever appended.                      *)
(***************************************************************************)
EntryOfCallback(k) ==
    /\ trace[k].op = callbacks[k].step.name
    /\ trace[k].pc = callbacks[k].step.pc
    /\ trace[k].evmStack = callbacks[k].step.stack
    /\ trace[k].depth = callbacks[k].step.depth + 1
    /\ trace[k].address = callbacks[k].step.address

C7_State ==
    /\ Len(trace) = nNext
    /\ Len(callbacks) - nNext \in {0, 1}
    /\ Len(callbacks) - nNext = 1 <=> vmpc = "wait"
    /\ \A k \in Steps : EntryOfCallback(k)

C7_AppendOnly ==
    /\ Len(trace') >= Len(trace)
    /\ \A k \in Steps : trace'[k] = trace[k]

C7_OneEntryPerCallbackInOrder == []C7_State /\ [][C7_AppendOnly]_vars

\* a callback in progress after two different completed ones
C7_Witness ==
    /\ vmpc = "wait"
    /\ Len(trace) >= 2
    /\ trace[1].op # trace[2].op

(***************************************************************************)
(* C8: once a step is in the trace, its frame-stack snapshot never         *)
(* changes, whatever later steps push or pop.                              *)
(***************************************************************************)
C8_SnapshotsImmutable ==
    [][\A k \in Steps : trace'[k].stack = trace[k].stack /\ Snapshot(k)' = Snapshot(k)]_vars

\* the live stack has moved on from an earlier snapshot, by a push and by a pop
C8_Witness ==
    \E j, k \in Steps :
        /\ j < k
        /\ Len(Snapshot(j)) < Len(arrays[StackRef])
        /\ Len(Snapshot(k)) > Len(arrays[StackRef])

C10_PoppedOnlyAtReturnJump ==
    \A k \in LaterSteps : \A i \in 1 .. Len(Snapshot(k - 1)) :
        (IsInternalAt(k - 1, i) /\ PoppedAt(k, i)) => IsReturnJump(k)

(***************************************************************************)
(* C10 amended: an InternalCall frame is popped either at a step at the    *)
(* depth of the step before it, which is then a JUMP with jump kind out    *)
(* and pops only the top frame, or at the first step after the depth       *)
(* decreased (where the step's op is arbitrary).                           *)
(***************************************************************************)
C10_PoppedAtReturnJumpOrDepthDecrease ==
    \A k \in LaterSteps : \A i \in 1 .. Len(Snapshot(k - 1)) :
        (IsInternalAt(k - 1, i) /\ PoppedAt(k, i)) =>
            \/ /\ trace[k].depth = trace[k - 1].depth
               /\ IsReturnJump(k)
               /\ Snapshot(k) = Pop(Snapshot(k - 1))
            \/ trace[k].depth < trace[k - 1].depth

\* an internal frame popped by its return jump
C10_Witness ==
    \E k \in LaterSteps :
        /\ trace[k].depth = trace[k - 1].depth
        /\ Top(Snapshot(k - 1)).kind = "internal_call"
        /\ Snapshot(k) = Pop(Snapshot(k - 1))

(***************************************************************************)
(* C11: a source-map lookup that fails for a step's PC in a contract with  *)
(* debug info never aborts the trace: the handler of such a step does not  *)
(* throw, and the step is recorded with src and astNode undefined.         *)
(***************************************************************************)
\* the source-map lookup fails for the callback being handled
LookupFailsAtCur ==
    /\ Len(arrays[StackRef]) >= 1
    /\ lastExternalFrame(arrays[StackRef]).info.def
    /\ ~getOffsetSrc(cur.pc).ok

C12_ArgumentsForEveryCallee ==
    \A k \in Steps : \A i \in 1 .. Len(Snapshot(k)) :
        LET f == Snapshot(k)[i]
        IN  f.callee.def =>
                f.arguments.def /\ Len(f.arguments.list) = Len(f.callee.formals)

(***************************************************************************)
(* C12 amended: every frame of every snapshot whose callee and arguments   *)
(* are both defined has as many arguments as the callee has formal         *)
(* parameters; the arguments of a Creation frame are always undefined, and *)
(* those of an InternalCall frame whose callee is not a function or        *)
(* state-variable definition are undefined.                                *)
(***************************************************************************)
C12_DefinedArgumentsMatchFormals ==
    \A k \in Steps : \A i \in 1 .. Len(Snapshot(k)) :
        LET f == Snapshot(k)[i]
        IN  /\ (f.callee.def /\ f.arguments.def) =>
                   Len(f.arguments.list) = Len(f.callee.formals)
            /\ f.kind = "creation" => ~f.arguments.def
            /\ (f.kind = "internal_call" /\ f.callee.kind # "FunctionDefinition") =>
                   ~f.arguments.def

\* a snapshot with a Call frame and an InternalCall frame, both with decoded
\* arguments
C12_Witness ==
    \E k \in Steps : \E i, j \in 1 .. Len(Snapshot(k)) :
        /\ Snapshot(k)[i].kind = "call"
        /\ Snapshot(k)[i].arguments.def
        /\ Len(Snapshot(k)[i].arguments.list) = 1
        /\ Snapshot(k)[j].kind = "internal_call"
        /\ Snapshot(k)[j].arguments.def
        /\ Len(Snapshot(k)[j].arguments.list) = 2

(***************************************************************************)
(* C13: every LOGN step records an event with exactly N topics, the N      *)
(* operand-stack words immediately below the size word, nearest the top    *)
(* first, and payload memory[offset, offset + size) for offset the top     *)
(* word and size the word below it; no other step records an event.        *)
(***************************************************************************)
C13_LogStepsRecordNTopics ==
    \A k \in Steps :
        LET s == trace[k]
            n == nTopicsOf(s.op)
        IN  IF isLog(s.op)
            THEN /\ s.emittedEvent.def
                 /\ Len(s.emittedEvent.topics) = n
                 /\ \A i \in 1 .. n :
                       /\ Len(s.evmStack) >= 2 + i
                       /\ s.emittedEvent.topics[i] = StackAt(s.evmStack, 1 + i)
                 /\ s.emittedEvent.payload =
                       Slice(s.memory, StackAt(s.evmStack, 0),
                             StackAt(s.evmStack, 0) + StackAt(s.evmStack, 1))
            ELSE ~s.emittedEvent.def

(***************************************************************************)
(* C14: the base frame built by debugTx is a Creation frame exactly when   *)
(* the transaction has no recipient; for a transaction with a recipient,   *)
(* whatever its address, it is a Call frame to the recipient whose code is *)
(* the recipient's deployed code.  Its startStep is 0.                     *)
(***************************************************************************)
C14_BaseFrameByRecipient ==
    LET base == arrays[StackRef][1]
    IN  Len(arrays[StackRef]) >= 1 =>
            /\ base.kind = "creation" <=> ~tx.to.def
            /\ tx.to.def =>
                  /\ base.kind = "call"
                  /\ base.receiver = tx.to.addr
                  /\ base.code = InitCodes[tx.to.addr]
            /\ base.startStep = 0

(***************************************************************************)
(* Two debugTx runs on one SolTxDebugger.  The debugger's only field is    *)
(* the artifact manager; `stack` and `trace` are created by each call of   *)
(* debugTx, and each run has its own VM.  The second run's handler is      *)
(* split at its await: processRawTraceStep, then trace.push and next().    *)
(***************************************************************************)
MaxOtherSteps == 2   \* step callbacks of the second run

\* the variant of OtherStackRef in which `stack` is a field of the debugger
SharedStackRef == StackRef

\* the second run's `stack`
OtherStackRef == 2

\* the instructions both runs execute
ProgPair == {i \in ProgInternal : i.op \in {"JUMP", "JUMPDEST"} /\ i.stack # <<7>>}

TxsPair == {t \in Txs : t.to = NoTo \/ t.to.addr = AddrA}

OtherCur ==
    IF other.callbacks = <<>> THEN NoStep
    ELSE other.callbacks[Len(other.callbacks)].step

OtherVMStep(instr, nEnds) ==
    /\ other.vmpc = "run"
    /\ Len(other.callbacks) < MaxOtherSteps
    /\ LET x == ExecOp(OtherCur, other.ctxs, other.storage, other.codes)
           e == EndContexts(x.ctxs, x.codes, nEnds)
       IN  /\ nEnds < Len(x.ctxs)
           /\ HasCode(Top(e.ctxs), x.codes)
           /\ other' = [other EXCEPT
                           !.ctxs = e.ctxs,
                           !.codes = e.codes,
                           !.storage = x.storage,
                           !.callbacks = Append(other.callbacks,
                                                CallbackOf(instr, e.ctxs, x.storage, e.codes)),
                           !.vmpc = "wait"]
    /\ UNCHANGED <<program, tx, ctxs, storage, codes, vmpc, callbacks, nNext,
                   failed, arrays, trace>>

OtherVMFinish ==
    /\ other.vmpc = "run"
    /\ LET x == ExecOp(OtherCur, other.ctxs, other.storage, other.codes)
           e == EndContexts(x.ctxs, x.codes, Len(x.ctxs))
       IN  other' = [other EXCEPT !.ctxs = e.ctxs, !.codes = e.codes,
                                  !.storage = x.storage, !.vmpc = "done"]
    /\ UNCHANGED <<program, tx, ctxs, storage, codes, vmpc, callbacks, nNext,
                   failed, arrays, trace>>

\* the second run's handler up to its await: processRawTraceStep
OtherProcessStep ==
    /\ other.vmpc = "wait"
    /\ ~other.failed
    /\ LET r == processRawTraceStep(OtherCur, other.trace, arrays[OtherStackRef],
                                    other.storage, other.codes)
           c == cloneStackAt(arrays, OtherStackRef, r.stack)
       IN  IF r.ok
           THEN /\ arrays' = c.arrays
                /\ other' = [other EXCEPT
                                !.pending = <<[r.state EXCEPT !.stack = c.ref]>>,
                                !.vmpc = "push"]
           ELSE /\ arrays' = [arrays EXCEPT ![OtherStackRef] = r.stack]
                /\ other' = [other EXCEPT !.failed = TRUE]
    /\ UNCHANGED <<program, tx, ctxs, storage, codes, vmpc, callbacks, nNext,
                   failed, trace>>

\* the second run's handler after its await: trace.push(curStep); next()
OtherPushStep ==
    /\ other.vmpc = "push"
    /\ other' = [other EXCEPT !.trace = pushStep(other.trace, other.pending[1]),
                              !.pending = <<>>,
                              !.nNext = other.nNext + 1,
                              !.vmpc = "run"]
    /\ UNCHANGED <<program, tx, ctxs, storage, codes, vmpc, callbacks, nNext,
                   failed, arrays, trace>>

InitTwoRuns ==
    /\ program = ProgPair
    /\ tx \in TxsPair
    /\ ctxs = <<initialCtx(tx, InitStorage)>>
    /\ storage = InitStorage
    /\ codes = InitCodes
    /\ vmpc = "run"
    /\ callbacks = <<>>
    /\ nNext = 0
    /\ failed = FALSE
    /\ trace = <<>>
    /\ \E t \in TxsPair :
          /\ other = [NoRun EXCEPT !.program = ProgPair,
                                   !.tx = t,
                                   !.ctxs = <<initialCtx(t, InitStorage)>>,
                                   !.vmpc = "run"]
          /\ arrays = [r \in 1 .. 2 |->
                          IF r = StackRef THEN <<initialFrame(tx, InitCodes)>>
                          ELSE <<initialFrame(t, InitCodes)>>]

NextTwoRuns ==
    \/ \E instr \in program, nEnds \in 0 .. MaxDepth : VMStep(instr, nEnds)
    \/ VMFinish
    \/ StepHandler
    \/ \E instr \in other.program, nEnds \in 0 .. MaxDepth : OtherVMStep(instr, nEnds)
    \/ OtherVMFinish
    \/ OtherProcessStep
    \/ OtherPushStep

SpecTwoRuns == InitTwoRuns /\ [][NextTwoRuns]_vars

\* debugTx alone on transaction t whose VM issued the step callbacks cbs:
\* its frame stack and trace (each step with its snapshot's frames) after n
\* callbacks were handled
RECURSIVE RunAlone(_, _, _)
RunAlone(t, cbs, n) ==
    IF n = 0 THEN [stack |-> <<initialFrame(t, InitCodes)>>, trace |-> <<>>]
    ELSE LET p == RunAlone(t, cbs, n - 1)
             r == processRawTraceStep(cbs[n].step, p.trace, p.stack,
                                      cbs[n].manager, cbs[n].codes)
         IN  IF r.ok
             THEN [stack |-> r.stack,
                   trace |-> Append(p.trace, [r.state EXCEPT !.stack = r.stack])]
             ELSE [stack |-> r.stack, trace |-> p.trace]

\* a trace with every step's snapshot read from the heap
WithSnapshots(tr) == [k \in 1 .. Len(tr) |-> [tr[k] EXCEPT !.stack = arrays[tr[k].stack]]]

\* the callbacks whose processRawTraceStep has run
Handled == Len(callbacks) - (IF vmpc = "wait" /\ ~failed THEN 1 ELSE 0)
OtherHandled ==
    Len(other.callbacks) - (IF other.vmpc = "wait" /\ ~other.failed THEN 1 ELSE 0)

SnapshotRefs(tr) == {tr[k].stack : k \in 1 .. Len(tr)}

(***************************************************************************)
(* C15: two debugTx runs on one SolTxDebugger, each with its own VM, whose *)
(* step callbacks interleave: at all times each run's frame stack and      *)
(* trace are those the run has alone on the callbacks its VM issued, the   *)
(* two runs share no Frame[] object, and no step of one run changes the    *)
(* other run's frame stack, trace or snapshots.                            *)
(***************************************************************************)
C15_AsAlone ==
    /\ arrays[StackRef] = RunAlone(tx, callbacks, Handled).stack
    /\ WithSnapshots(trace) = RunAlone(tx, callbacks, Handled).trace
    /\ arrays[OtherStackRef] = RunAlone(other.tx, other.callbacks, OtherHandled).stack
    /\ WithSnapshots(other.trace \o other.pending)
           = RunAlone(other.tx, other.callbacks, OtherHandled).trace
    /\ SnapshotRefs(trace) \cap SnapshotRefs(other.trace \o other.pending) = {}
    /\ {StackRef, OtherStackRef} \cap
           (SnapshotRefs(trace) \cup SnapshotRefs(other.trace \o other.pending)) = {}

C15_NoInterference ==
    /\ other' # other =>
          /\ trace' = trace
          /\ arrays'[StackRef] = arrays[StackRef]
          /\ \A k \in Steps : Snapshot(k)' = Snapshot(k)
    /\ <<callbacks, vmpc, failed, trace>>' # <<callbacks, vmpc, failed, trace>> =>
          /\ other'.trace = other.trace
          /\ arrays'[OtherStackRef] = arrays[OtherStackRef]
          /\ \A r \in SnapshotRefs(other.trace \o other.pending) : arrays'[r] = arrays[r]

C15_RunsDoNotInterfere == []C15_AsAlone /\ [][C15_NoInterference]_vars

\* both runs have recorded steps under an internal frame, the second run's
\* handler being at its await while the first run's handler ran
C15_Witness ==
    /\ Len(trace) >= 2
    /\ Len(arrays[StackRef]) >= 2
    /\ other.vmpc = "push"
    /\ Len(other.trace) >= 1
    /\ Len(arrays[OtherStackRef]) >= 2
    /\ \E k \in Steps : trace[k].stack > other.pending[1].stack
    /\ \E k \in Steps : trace[k].stack < other.trace[1].stack

(***************************************************************************)
(* C16: at the first step after the depth dropped from prev.depth to       *)
(* current, the snapshot is the previous one without its top frames: the   *)
(* prev.depth - current topmost Call/Creation frames and the InternalCall  *)
(* frames above each of them, and nothing below the lowest of these.  It   *)
(* equals the snapshot of the step whose CALL/CREATE op entered the        *)
(* outermost context that ended.                                           *)
(***************************************************************************)
\* the step at which the context running at step k was left for a deeper one
EnteringStep(k) ==
    CHOOSE j \in 1 .. k - 1 :
        /\ trace[j].depth = trace[k].depth
        /\ \A m \in j + 1 .. k - 1 : trace[m].depth > trace[k].depth

C16_DepthDecreasePopsToCaller ==
    \A k \in LaterSteps :
        trace[k].depth < trace[k - 1].depth =>
            LET prev == Snapshot(k - 1)
                now == Snapshot(k)
            IN  /\ Len(now) < Len(prev)
                /\ now = SubSeq(prev, 1, Len(now))
                /\ nExternal(prev) - nExternal(now) = trace[k - 1].depth - trace[k].depth
                /\ IsExternal(prev[Len(now) + 1])
                /\ \E j \in 1 .. k - 1 :
                      /\ trace[j].depth = trace[k].depth
                      /\ \A m \in j + 1 .. k - 1 : trace[m].depth > trace[k].depth
                /\ increasesDepth(trace[EnteringStep(k)].op)
                /\ now = Snapshot(EnteringStep(k))

\* an external call made under an internal frame of the caller returns from
\* under an internal frame of the callee
C16_Witness ==
    \E k \in LaterSteps :
        /\ trace[k].depth < trace[k - 1].depth
        /\ Top(Snapshot(k)).kind = "internal_call"
        /\ Top(Snapshot(k - 1)).kind = "internal_call"
        /\ Len(Snapshot(k - 1)) = Len(Snapshot(k)) + 2

(***************************************************************************)
(* A VM that does not keep the protocol of the step events: it may report  *)
(* a step at any depth, whatever the previous instruction was.             *)
(***************************************************************************)
ProgLoose == {i \in ProgInternal : i.op \in {"ADD", "CALL"}}

\* the context stack cut or filled up to n contexts
Resized(cs, n, sto) ==
    [i \in 1 .. n |-> IF i <= Len(cs) THEN cs[i] ELSE Ctx(AddrA, AddrA, FALSE, sto)]

VMLooseStep(instr, depth) ==
    /\ vmpc = "run"
    /\ Len(callbacks) < StepBound
    /\ LET x == ExecOp(cur, ctxs, storage, codes)
           cs == Resized(x.ctxs, depth + 1, x.storage)
       IN  /\ ctxs' = cs
           /\ codes' = x.codes
           /\ storage' = x.storage
           /\ callbacks' = Append(callbacks, CallbackOf(instr, cs, x.storage, x.codes))
    /\ vmpc' = "wait"
    /\ UNCHANGED <<program, tx, nNext, failed, arrays, trace, other>>

InitLooseVM ==
    /\ program = ProgLoose
    /\ tx \in {t \in Txs : t.to.def /\ t.to.addr = AddrA}
    /\ ctxs = <<initialCtx(tx, InitStorage)>>
    /\ storage = InitStorage
    /\ codes = InitCodes
    /\ vmpc = "run"
    /\ callbacks = <<>>
    /\ nNext = 0
    /\ failed = FALSE
    /\ arrays = << <<initialFrame(tx, InitCodes)>> >>
    /\ trace = <<>>
    /\ other = NoRun

NextLooseVM ==
    \/ \E instr \in program, nEnds \in 0 .. MaxDepth : VMStep(instr, nEnds)
    \/ \E instr \in program, depth \in 0 .. MaxDepth : VMLooseStep(instr, depth)
    \/ VMFinish
    \/ StepHandler

SpecLooseVM == InitLooseVM /\ [][NextLooseVM]_vars

\* the callback being handled is at a greater depth than the last recorded step
DepthIncreasesAtCur ==
    /\ vmpc = "wait"
    /\ Len(trace) >= 1
    /\ cur.depth + 1 > trace[Len(trace)].depth

(***************************************************************************)
(* C17: a depth increase between consecutive steps is accepted only if it  *)
(* is exactly +1: a step whose depth is 2 or more above the previous       *)
(* step's is never recorded and pushes no frame; its handler fails.        *)
(***************************************************************************)
C17_DepthIncreaseByOneOnly ==
    /\ \A k \in LaterSteps :
          trace[k].depth > trace[k - 1].depth => trace[k].depth = trace[k - 1].depth + 1
    /\ (DepthIncreasesAtCur /\ failed /\ cur.depth + 1 > trace[Len(trace)].depth + 1) =>
          arrays[StackRef] = Snapshot(Len(trace))

(***************************************************************************)
(* C18: when the depth increases and the previous step's op is not one of  *)
(* CALL, CALLCODE, DELEGATECALL, STATICCALL, CREATE, CREATE2, the handler  *)
(* of the step fails: no frame is pushed, the frame stack is left as it    *)
(* was, nothing is appended to the trace and the continuation is not       *)
(* invoked.  No recorded step is deeper than its predecessor unless the    *)
(* predecessor's op is one of these.                                       *)
(***************************************************************************)
DepthIncreasingOps == {"CALL", "CALLCODE", "DELEGATECALL", "STATICCALL", "CREATE", "CREATE2"}

C18_HandlerFailsStackKept ==
    (DepthIncreasesAtCur /\ ~failed /\ trace[Len(trace)].op \notin DepthIncreasingOps) =>
        /\ failed'
        /\ arrays' = arrays
        /\ trace' = trace
        /\ nNext' = nNext
        /\ vmpc' = "wait"

C18_NeverRecorded ==
    \A k \in LaterSteps :
        trace[k].depth > trace[k - 1].depth => trace[k - 1].op \in DepthIncreasingOps

C18_DepthIncreaseNeedsCallOrCreate ==
    []C18_NeverRecorded /\ [][C18_HandlerFailsStackKept]_vars

\* the handler failed on a deeper step that follows an ADD
C18_Witness ==
    /\ DepthIncreasesAtCur
    /\ failed
    /\ trace[Len(trace)].op = "ADD"
    /\ Len(trace) >= 2
    /\ Len(arrays[StackRef]) >= 2

(***************************************************************************)
(* C19: at a step at the depth of the previous step, with a defined source *)
(* triple, whose op is JUMP with jump kind out: if the top frame is an     *)
(* InternalCall, exactly that frame is popped; otherwise the handler fails *)
(* and the frame stack is left as it was.  At same-depth steps of an       *)
(* external frame without debug info the frame stack never changes.        *)
(***************************************************************************)
\* the callback being handled is a return jump at the depth of the last step
ReturnJumpAtCur ==
    /\ vmpc = "wait"
    /\ Len(trace) >= 1
    /\ cur.depth + 1 = trace[Len(trace)].depth
    /\ cur.name = "JUMP"
    /\ LET loc == decodeSourceLoc(cur.pc, lastExternalFrame(arrays[StackRef]))
       IN  loc.ok /\ loc.src.def /\ loc.src.jump = "o"

C19_HandlerAtReturnJump ==
    (ReturnJumpAtCur /\ ~failed) =>
        IF Top(arrays[StackRef]).kind = "internal_call"
        THEN /\ ~failed'
             /\ arrays'[StackRef] = Pop(arrays[StackRef])
             /\ Len(trace') = Len(trace) + 1
             /\ arrays'[trace'[Len(trace')].stack] = Pop(arrays[StackRef])
        ELSE /\ failed'
             /\ arrays' = arrays
             /\ trace' = trace

C19_SameDepthSteps ==
    \A k \in LaterSteps :
        trace[k].depth = trace[k - 1].depth =>
            /\ IsReturnJump(k) =>
                  /\ Top(Snapshot(k - 1)).kind = "internal_call"
                  /\ Snapshot(k) = Pop(Snapshot(k - 1))
            /\ ~trace[k].contractInfo.def => Snapshot(k) = Snapshot(k - 1)

C19_InternalReturnPopsOrFails ==
    []C19_SameDepthSteps /\ [][C19_HandlerAtReturnJump]_vars

\* a return jump met without an InternalCall frame on top, and a recorded
\* same-depth step of a contract without debug info
C19_Witness ==
    /\ ReturnJumpAtCur
    /\ failed
    /\ Top(arrays[StackRef]).kind # "internal_call"
    /\ Len(trace) >= 2

(***************************************************************************)
(* The run with its scheduling: a handler that was invoked runs, and the   *)
(* VM, whose execution is finite, runs on once its continuation was        *)
(* invoked.                                                                *)
(***************************************************************************)
ProgLive == {i \in ProgInternal : i.op \in {"JUMP", "JUMPDEST"}}

InitLive ==
    /\ program = ProgLive
    /\ tx \in Txs
    /\ ctxs = <<initialCtx(tx, InitStorage)>>
    /\ storage = InitStorage
    /\ codes = InitCodes
    /\ vmpc = "run"
    /\ callbacks = <<>>
    /\ nNext = 0
    /\ failed = FALSE
    /\ arrays = << <<initialFrame(tx, InitCodes)>> >>
    /\ trace = <<>>
    /\ other = NoRun

SpecLive == InitLive /\ [][Next]_vars /\ WF_vars(StepHandler) /\ WF_vars(VMFinish)

(***************************************************************************)
(* C20: debugTx eventually completes: every step callback is eventually    *)
(* followed by the VM running on (its continuation was invoked), and       *)
(* runTx eventually settles, also when the processing of a step fails.     *)
(***************************************************************************)
C20_DebugTxCompletes ==
    /\ <>(vmpc = "done")
    /\ [](vmpc = "wait" => <>(vmpc # "wait"))

(***************************************************************************)
(* C21: on a depth increase, the sender of the newly pushed Creation or    *)
(* Call frame is the executing address of the previous step, whatever the  *)
(* kind of the calling frame.                                              *)
(***************************************************************************)
C21_SenderIsPrevAddress ==
    \A k \in LaterSteps :
        trace[k].depth > trace[k - 1].depth =>
            /\ IsExternal(Top(Snapshot(k)))
            /\ Top(Snapshot(k)).sender = trace[k - 1].address

\* the same, for callers that are Call frames entered by something other
\* than DELEGATECALL or CALLCODE
C21_SenderOfPlainCaller ==
    \A k \in LaterSteps :
        ( /\ trace[k].depth > trace[k - 1].depth
          /\ lastExternalFrame(Snapshot(k - 1)).kind = "call"
          /\ trace[k - 1].address = trace[k - 1].codeAddress )
        => Top(Snapshot(k)).sender = trace[k - 1].address

(***************************************************************************)
(* C22: a step is identified as executing initcode (code = the slice of    *)
(* the previous step's memory, hash = creation-code hash) only when the    *)
(* previous step's op is CREATE/CREATE2 and the depth changed; a step at   *)
(* the depth of the CREATE/CREATE2 step before it has the code and hash of *)
(* the contract still executing.                                           *)
(***************************************************************************)
\* the initcode named by the operand stack and memory of step k
InitcodeOf(k) ==
    Slice(trace[k].memory, StackAt(trace[k].evmStack, 1),
          StackAt(trace[k].evmStack, 1) + StackAt(trace[k].evmStack, 2))

C22_InitcodeOnlyWhenCreationEntered ==
    \A k \in LaterSteps :
        createsContract(trace[k - 1].op) =>
            /\ trace[k].depth > trace[k - 1].depth =>
                  /\ trace[k].code = InitcodeOf(k - 1)
                  /\ trace[k].codeMdHash = getCreationCodeHash(InitcodeOf(k - 1))
            /\ trace[k].depth = trace[k - 1].depth =>
                  /\ trace[k].code = trace[k - 1].code
                  /\ trace[k].codeMdHash = trace[k - 1].codeMdHash

(***************************************************************************)
(* C23: for every step, step.code is the code buffer of the last external  *)
(* frame of the step's snapshot (the code of a Call frame, the creation    *)
(* code of a Creation frame), also after a nested call or creation made by *)
(* that frame has returned.                                                *)
(***************************************************************************)
C23_StepCodeIsFrameCode ==
    \A k \in Steps : trace[k].code = lastExternalFrame(Snapshot(k)).code

\* the same, for Call frames none of whose steps so far follows a
\* CREATE/CREATE2 step that entered no creation
C23_CallFrameCode ==
    \A k \in Steps :
        ( /\ lastExternalFrame(Snapshot(k)).kind = "call"
          /\ \A j \in 2 .. k :
                ~(createsContract(trace[j - 1].op) /\ trace[j].depth <= trace[j - 1].depth) )
        => trace[k].code = lastExternalFrame(Snapshot(k)).code

(***************************************************************************)
(* C24: in every snapshot, the nearestExtFrame of each InternalCall frame  *)
(* is the closest Call/Creation frame below it in that snapshot, so the    *)
(* internal frames stacked on one external frame share it, and             *)
(* lastExternalFrame(snapshot) is a frame of the snapshot.  (Frames are    *)
(* never modified and the external frames of a stack differ in startStep,  *)
(* so equal external frames of a snapshot are the same object.)            *)
(***************************************************************************)
\* the index of the closest Call/Creation frame below frame i of a stack
ClosestExternalBelow(stack, i) ==
    CHOOSE j \in 1 .. i - 1 :
        /\ IsExternal(stack[j])
        /\ \A m \in j + 1 .. i - 1 : ~IsExternal(stack[m])

NearestExtFrameIn(stack) ==
    /\ \A i \in 1 .. Len(stack) :
          stack[i].kind = "internal_call" =>
              /\ \E j \in 1 .. i - 1 : IsExternal(stack[j])
              /\ stack[i].nearestExtFrame = <<stack[ClosestExternalBelow(stack, i)]>>
    /\ \A i, j \in 1 .. Len(stack) :
          (IsExternal(stack[i]) /\ IsExternal(stack[j]) /\ i < j) =>
              stack[i].startStep < stack[j].startStep
    /\ \E i \in 1 .. Len(stack) : stack[i] = lastExternalFrame(stack)

C24_NearestExtFrameIsClosestBelow ==
    /\ \A k \in Steps : NearestExtFrameIn(Snapshot(k))
    /\ NearestExtFrameIn(arrays[StackRef])

\* internal frames on the base frame and on a Call frame above them
C24_Witness ==
    \E k \in Steps :
        /\ Len(Snapshot(k)) >= 4
        /\ Snapshot(k)[2].kind = "internal_call"
        /\ IsExternal(Snapshot(k)[3])
        /\ Snapshot(k)[4].kind = "internal_call"

(***************************************************************************)
(* C25: the arguments decodeFunArgs returned for an InternalCall frame are *)
(* one Stack location per formal, each naming an existing word of the      *)
(* operand stack it was given (0 <= offsetFromTop < stack depth), and no   *)
(* frame has decoded arguments when that operand stack had fewer words     *)
(* than the formals' total slot count (the handler fails hard instead).    *)
(***************************************************************************)
RECURSIVE TotalSlots(_)
TotalSlots(formals) ==
    IF formals = <<>> THEN 0 ELSE Head(formals) + TotalSlots(Tail(formals))

\* the operand stack decodeFunArgs was given for an InternalCall frame: that
\* of the step at which the frame was pushed
OperandStackOf(f) == trace[f.startStep + 1].evmStack

C25_OffsetsNameExistingWords ==
    \A k \in Steps : \A i \in 1 .. Len(Snapshot(k)) :
        LET f == Snapshot(k)[i]
        IN  (f.kind = "internal_call" /\ f.arguments.def) =>
                /\ Len(f.arguments.list) = Len(f.callee.formals)
                /\ \A a \in 1 .. Len(f.arguments.list) :
                      /\ f.arguments.list[a].kind = "stack"
                      /\ 0 <= f.arguments.list[a].at
                      /\ f.arguments.list[a].at < Len(OperandStackOf(f))
                /\ Len(OperandStackOf(f)) >= TotalSlots(f.callee.formals)

\* the frames of C25 for which the property does hold: the operand stack has
\* a word more than the formals have slots
C25_OffsetsWithSpareWord ==
    \A k \in Steps : \A i \in 1 .. Len(Snapshot(k)) :
        LET f == Snapshot(k)[i]
        IN  (f.kind = "internal_call" /\ f.arguments.def) =>
                /\ f.startStep + 1 \in Steps
                /\ trace[f.startStep + 1].op = "JUMPDEST"
                /\ Len(OperandStackOf(f)) >= TotalSlots(f.callee.formals) - 1
                /\ Len(OperandStackOf(f)) >= TotalSlots(f.callee.formals) =>
                      \A a \in 1 .. Len(f.arguments.list) :
                          /\ 0 <= f.arguments.list[a].at
                          /\ f.arguments.list[a].at < Len(OperandStackOf(f))

(***************************************************************************)
(* C26: at every step whose depth is greater than its predecessor's, the   *)
(* frame pushed is, after CREATE/CREATE2, a Creation frame whose code is   *)
(* prev.memory[off, off + size) for off and size the operand-stack words   *)
(* at offsets 1 and 2 from the top, and otherwise a Call frame whose       *)
(* msgData is prev.memory[argOff, argOff + argSize) for the words at       *)
(* offsets 3 and 4 (CALL, CALLCODE) or 2 and 3 (DELEGATECALL, STATICCALL)  *)
(* and whose receiver is the word at offset 1 as an address; the frame's   *)
(* startStep is the trace index of that step, the first one executed in    *)
(* the new context, in every snapshot that holds the frame.                *)
(***************************************************************************)
\* the operand-stack word at an offset from the top (the top is offset 0)
WordFromTop(evmStack, o) == evmStack[Len(evmStack) - o]

\* the bytes of memory at positions off .. off + size - 1 that exist
MemoryRange(mem, off, size) ==
    LET n == Cardinality({p \in 0 .. Len(mem) - 1 : off <= p /\ p < off + size})
    IN  [i \in 1 .. n |-> mem[off + i]]

\* the number of Call and Creation frames among the first i frames of a stack
ExternalUpTo(stack, i) == Cardinality({j \in 1 .. i : IsExternal(stack[j])})

C26_NewFrameReadsPrevStep ==
    /\ \A k \in LaterSteps :
          trace[k].depth > trace[k - 1].depth =>
              LET prev == trace[k - 1]
                  f == Top(Snapshot(k))
              IN  /\ f.startStep = k - 1
                  /\ IF createsContract(prev.op)
                     THEN /\ Len(prev.evmStack) > 2
                          /\ f.kind = "creation"
                          /\ f.code = MemoryRange(prev.memory,
                                                  WordFromTop(prev.evmStack, 1),
                                                  WordFromTop(prev.evmStack, 2))
                     ELSE LET o == IF prev.op \in {"CALL", "CALLCODE"} THEN 3 ELSE 2
                          IN  /\ prev.op \in {"CALL", "CALLCODE", "DELEGATECALL",
                                              "STATICCALL"}
                              /\ Len(prev.evmStack) > o + 1
                              /\ f.kind = "call"
                              /\ f.msgData = MemoryRange(prev.memory,
                                                 WordFromTop(prev.evmStack, o),
                                                 WordFromTop(prev.evmStack, o + 1))
                              /\ f.receiver =
                                     wordToAddress(WordFromTop(prev.evmStack, 1))
    /\ \A k \in Steps : \A i \in 2 .. Len(Snapshot(k)) :
          LET f == Snapshot(k)[i]
              d == ExternalUpTo(Snapshot(k), i)
          IN  IsExternal(f) =>
                  /\ f.startStep >= 1 /\ f.startStep + 1 <= k
                  /\ trace[f.startStep].depth = d - 1
                  /\ \A j \in f.startStep + 1 .. k : trace[j].depth >= d

\* a DELEGATECALL with a non-empty argument range entered a new context
C26_Witness ==
    \E k \in LaterSteps :
        /\ trace[k].depth > trace[k - 1].depth
        /\ trace[k - 1].op = "DELEGATECALL"
        /\ Top(Snapshot(k)).msgData # <<>>

====
